---- MODULE Spec2Model ----
(***************************************************************************)
(* Model of scripts/build.py of kayak-travel-viz: the airport reference    *)
(* index (load_iata_index), the code extractor (iata_from_raw) and the     *)
(* itinerary resolver (collect_segments) followed by the trip grouping of  *)
(* main.                                                                   *)
(*                                                                         *)
(* Text is a sequence of one-character strings.  Floating point values are *)
(* integers (coordinates scaled by 10000).  A datetime is a record         *)
(* [t, off]: t is the wall-clock reading in ticks, off the UTC offset of   *)
(* its tzinfo or NoTz for a naive value.  Display labels, titles and trip  *)
(* names are text decoration that no branch of the resolver depends on;    *)
(* they are not part of the records below.                                 *)
(***************************************************************************)
EXTENDS Integers, Sequences, FiniteSets, TLC

(***************************************************************************)
(* Bounds of the model                                                     *)
(***************************************************************************)
MaxDocs == 2
MaxEvents == 2
MaxSegs == 2
MaxRows == 2

(***************************************************************************)
(* Text values.  The program reads every text field through its truth      *)
(* value (x or "", if not raw, raw if raw else None), so an absent text    *)
(* and the empty text are the same value here.                             *)
(***************************************************************************)
None == <<>>

(***************************************************************************)
(* Text helpers: str.strip, str.upper                                      *)
(***************************************************************************)
LowerLetters == <<"a","b","c","d","e","f","g","h","i","j","k","l","m",
                  "n","o","p","q","r","s","t","u","v","w","x","y","z">>

UpperLetters == <<"A","B","C","D","E","F","G","H","I","J","K","L","M",
                  "N","O","P","Q","R","S","T","U","V","W","X","Y","Z">>

AZ == {UpperLetters[i] : i \in 1..26}

Whitespace == {" ", "\t", "\n"}

ToUpper == [c \in {LowerLetters[i] : i \in 1..26} |->
               UpperLetters[CHOOSE i \in 1..26 : LowerLetters[i] = c]]

UpperChar(c) == IF c \in DOMAIN ToUpper THEN ToUpper[c] ELSE c

Upper(s) == [i \in 1..Len(s) |-> UpperChar(s[i])]

Strip(s) ==
    LET idx == {i \in 1..Len(s) : s[i] \notin Whitespace}
    IN  IF idx = {} THEN <<>>
        ELSE LET lo == CHOOSE i \in idx : \A j \in idx : i <= j
                 hi == CHOOSE i \in idx : \A j \in idx : i >= j
             IN  SubSeq(s, lo, hi)

(***************************************************************************)
(* IATA_ALIASES                                                            *)
(***************************************************************************)
TXL == <<"T","X","L">>
SXF == <<"S","X","F">>
NYC == <<"N","Y","C">>
BER == <<"B","E","R">>
JFK == <<"J","F","K">>

IATA_ALIASES_keys == {TXL, SXF, NYC}

IATA_ALIASES(code) ==
    IF code = TXL THEN BER
    ELSE IF code = SXF THEN BER
    ELSE IF code = NYC THEN JFK
    ELSE code

(***************************************************************************)
(* IATA_STRICT_RE = ^(?P<c1>[A-Z]{3})(?:\s*\((?P<c2>[A-Z]{3})\))?$         *)
(* The result is [ok, c1, c2]; c2 is None when the optional group did not  *)
(* take part in the match.  $ also matches before one final newline.       *)
(***************************************************************************)
IsCode(s) == Len(s) = 3 /\ \A i \in 1..3 : s[i] \in AZ

IsParenTail(r) ==
    /\ Len(r) >= 5
    /\ r[Len(r) - 4] = "("
    /\ IsCode(SubSeq(r, Len(r) - 3, Len(r) - 1))
    /\ r[Len(r)] = ")"
    /\ \A i \in 1..(Len(r) - 5) : r[i] \in Whitespace

DropFinalNewline(s) ==
    IF Len(s) > 0 /\ s[Len(s)] = "\n" THEN SubSeq(s, 1, Len(s) - 1) ELSE s

StrictAt(s) ==
    IF Len(s) >= 3 /\ IsCode(SubSeq(s, 1, 3))
    THEN LET r == SubSeq(s, 4, Len(s))
         IN  IF r = <<>>
             THEN [ok |-> TRUE, c1 |-> SubSeq(s, 1, 3), c2 |-> None]
             ELSE IF IsParenTail(r)
             THEN [ok |-> TRUE, c1 |-> SubSeq(s, 1, 3),
                   c2 |-> SubSeq(r, Len(r) - 3, Len(r) - 1)]
             ELSE [ok |-> FALSE, c1 |-> None, c2 |-> None]
    ELSE [ok |-> FALSE, c1 |-> None, c2 |-> None]

IATA_STRICT_RE(s) ==
    IF StrictAt(s).ok THEN StrictAt(s) ELSE StrictAt(DropFinalNewline(s))

(***************************************************************************)
(* IATA_PAREN_RE = \(([A-Z]{3})\) with findall: the start positions of the *)
(* matches; two matches cannot overlap.                                    *)
(***************************************************************************)
IATA_PAREN_RE(s) ==
    {i \in 1..(Len(s) - 4) :
        /\ s[i] = "("
        /\ IsCode(SubSeq(s, i + 1, i + 3))
        /\ s[i + 4] = ")"}

(***************************************************************************)
(* iata_from_raw                                                           *)
(***************************************************************************)
iata_from_raw_leading(raw) ==
    IF raw = None THEN None
    ELSE LET raw_up == Upper(Strip(raw))
             m == IATA_STRICT_RE(raw_up)
             par == IATA_PAREN_RE(raw_up)
         IN  IF m.ok
             THEN IATA_ALIASES(m.c1)
             ELSE IF par # {}
             THEN LET last == CHOOSE i \in par : \A j \in par : j <= i
                  IN  IATA_ALIASES(SubSeq(raw_up, last + 1, last + 3))
             ELSE None

\* The fallback takes the first parenthesized code instead of the last.
iata_from_raw_first(raw) ==
    IF raw = None THEN None
    ELSE LET raw_up == Upper(Strip(raw))
             m == IATA_STRICT_RE(raw_up)
             par == IATA_PAREN_RE(raw_up)
         IN  IF m.ok
             THEN IATA_ALIASES(IF m.c2 # None THEN m.c2 ELSE m.c1)
             ELSE IF par # {}
             THEN LET first == CHOOSE i \in par : \A j \in par : i <= j
                  IN  IATA_ALIASES(SubSeq(raw_up, first + 1, first + 3))
             ELSE None

\* The fallback returns the code it found without looking it up in the aliases.
iata_from_raw_unaliased(raw) ==
    IF raw = None THEN None
    ELSE LET raw_up == Upper(Strip(raw))
             m == IATA_STRICT_RE(raw_up)
             par == IATA_PAREN_RE(raw_up)
         IN  IF m.ok
             THEN IATA_ALIASES(IF m.c2 # None THEN m.c2 ELSE m.c1)
             ELSE IF par # {}
             THEN LET last == CHOOSE i \in par : \A j \in par : j <= i
                  IN  SubSeq(raw_up, last + 1, last + 3)
             ELSE None

iata_from_raw(raw) ==
    IF raw = None THEN None
    ELSE LET raw_up == Upper(Strip(raw))
             m == IATA_STRICT_RE(raw_up)
             par == IATA_PAREN_RE(raw_up)
         IN  IF m.ok
             THEN IATA_ALIASES(IF m.c2 # None THEN m.c2 ELSE m.c1)
             ELSE IF par # {}
             THEN LET last == CHOOSE i \in par : \A j \in par : j <= i
                  IN  IATA_ALIASES(SubSeq(raw_up, last + 1, last + 3))
             ELSE None

(***************************************************************************)
(* Values handed to float(): [kind, val] with kind "num" for a number or   *)
(* text that parses as one, "text" for text that does not parse (float     *)
(* raises ValueError) and "none" for None or a missing key (float raises   *)
(* TypeError; x or "" turns it into text that does not parse).             *)
(***************************************************************************)
Num(n) == [kind |-> "num", val |-> n]

BadNum == [kind |-> "text", val |-> 0]

NoNum == [kind |-> "none", val |-> 0]

IsFloat(v) == v.kind = "num"

(***************************************************************************)
(* MANUAL_AIRPORTS: code -> (lat, lon, name, iso_country)                  *)
(***************************************************************************)
LGP == <<"L","G","P">>

LegazpiAirport == <<"L","e","g","a","z","p","i"," ","A","i","r","p","o","r","t">>

MANUAL_AIRPORTS_keys == {LGP}

MANUAL_AIRPORTS(code) ==
    [lat |-> 131575, lon |-> 1237350, name |-> LegazpiAirport, iso_country |-> <<"P","H">>]

(***************************************************************************)
(* load_iata_index.  The index is a function from codes to records.        *)
(***************************************************************************)
EmptyIndex == [c \in {} |-> None]

Put(idx, k, rec) == [c \in DOMAIN idx \cup {k} |-> IF c = k THEN rec ELSE idx[c]]

\* A primary row whose code is of any length but zero is taken.
PrimaryRowAnyLength(idx, row) ==
    LET iata == Upper(Strip(row.iata_code))
    IN  IF iata = <<>> THEN idx
        ELSE IF ~(IsFloat(row.latitude_deg) /\ IsFloat(row.longitude_deg)) THEN idx
        ELSE Put(idx, iata,
                 [lat |-> row.latitude_deg.val, lon |-> row.longitude_deg.val,
                  name |-> Strip(row.name),
                  iso_country |-> Upper(Strip(row.iso_country))])

\* One iteration of the loop over the OurAirports rows (lines 101-112).
PrimaryRow(idx, row) ==
    LET iata == Upper(Strip(row.iata_code))
    IN  IF iata = <<>> \/ Len(iata) # 3 THEN idx
        ELSE IF ~(IsFloat(row.latitude_deg) /\ IsFloat(row.longitude_deg)) THEN idx
        ELSE Put(idx, iata,
                 [lat |-> row.latitude_deg.val, lon |-> row.longitude_deg.val,
                  name |-> Strip(row.name),
                  iso_country |-> Upper(Strip(row.iso_country))])

MissingMarker == <<"\\","N">>

\* A secondary row that overwrites whatever the index holds.
SecondaryRowOverwrite(idx, parts) ==
    IF Len(parts) < 8 THEN idx
    ELSE LET iata == Upper(Strip(parts[5]))
         IN  IF iata = <<>> \/ iata = MissingMarker \/ Len(iata) # 3 THEN idx
             ELSE IF ~(IsFloat(parts[7]) /\ IsFloat(parts[8])) THEN idx
             ELSE Put(idx, iata,
                      [lat |-> parts[7].val, lon |-> parts[8].val,
                       name |-> Strip(parts[2]), iso_country |-> None])

\* One iteration of the loop over the OpenFlights lines (lines 117-135);
\* parts is the parsed line, parts[i] here being parts[i-1] there.
SecondaryRow(idx, parts) ==
    IF Len(parts) < 8 THEN idx
    ELSE LET iata == Upper(Strip(parts[5]))
         IN  IF iata = <<>> \/ iata = MissingMarker \/ Len(iata) # 3 THEN idx
             ELSE IF iata \in DOMAIN idx THEN idx
             ELSE IF ~(IsFloat(parts[7]) /\ IsFloat(parts[8])) THEN idx
             ELSE Put(idx, iata,
                      [lat |-> parts[7].val, lon |-> parts[8].val,
                       name |-> Strip(parts[2]), iso_country |-> None])

RECURSIVE ManualFrom(_, _)
ManualFrom(idx, codes) ==
    IF codes = {} THEN idx
    ELSE LET code == CHOOSE c \in codes : TRUE
             next == IF code \notin DOMAIN idx
                     THEN Put(idx, code, MANUAL_AIRPORTS(code)) ELSE idx
         IN  ManualFrom(next, codes \ {code})

\* The loop over MANUAL_AIRPORTS (lines 138-140).
ApplyManual(idx) == ManualFrom(idx, MANUAL_AIRPORTS_keys)

RECURSIVE FoldRows(_, _, _)
FoldRows(idx, rows, primary) ==
    IF rows = <<>> THEN idx
    ELSE FoldRows(IF primary THEN PrimaryRow(idx, Head(rows))
                  ELSE SecondaryRow(idx, Head(rows)),
                  Tail(rows), primary)

load_iata_index(airports_csv, openflights_dat) ==
    ApplyManual(FoldRows(FoldRows(EmptyIndex, airports_csv, TRUE),
                         openflights_dat, FALSE))

(***************************************************************************)
(* Datetimes.  A tick is the unit of wall-clock readings and of UTC        *)
(* offsets alike; a year has two ticks, so that an offset can carry a      *)
(* reading across a year boundary, as +08:00 does on 1 January.            *)
(***************************************************************************)
NoDt == [some |-> FALSE, t |-> 0, aware |-> FALSE, off |-> 0]

Naive(t) == [some |-> TRUE, t |-> t, aware |-> FALSE, off |-> 0]

Aware(t, off) == [some |-> TRUE, t |-> t, aware |-> TRUE, off |-> off]

YearOf(t) == 2024 + (t \div 2)

\* tz.gettz(tzid): the offset of a zone the tz database knows; gettz gives
\* None for a name it does not know and replace(tzinfo=None) leaves dt naive.
KnownZones == {"Asia/Manila"}

ZoneOffset(tzid) == 1

\* parse_dt.  s is [fmt, t]: fmt "none" (absent or empty), "bad" (neither
\* format parses), "frac" (DATE_FMT parses) or "plain" (the fallback parses).
parse_dt(s, tzid) ==
    IF s.fmt = "none" THEN NoDt
    ELSE IF s.fmt = "bad" THEN NoDt
    ELSE IF tzid \in KnownZones THEN Aware(s.t, ZoneOffset(tzid))
    ELSE Naive(s.t)

NoIso == [some |-> FALSE, t |-> 0, utc |-> FALSE]

\* dt_iso: the ISO text, as [t, utc]; utc says the text ends in +00:00.
dt_iso(dt) ==
    IF ~dt.some THEN NoIso
    ELSE IF ~dt.aware THEN [some |-> TRUE, t |-> dt.t, utc |-> FALSE]
    ELSE [some |-> TRUE, t |-> dt.t - dt.off, utc |-> TRUE]

\* datetime.__lt__ raises TypeError between a naive and an aware value.
Comparable(a, b) == a.aware = b.aware

DtLess(a, b) == (a.t - a.off) < (b.t - b.off)

\* The year of the value as dt_iso writes it.
YearOrNoneUtc(dt) == IF dt.some THEN YearOf(dt.t - dt.off) ELSE 0

\* dt.year of an optional datetime (0 stands for None).
YearOrNone(dt) == IF dt.some THEN YearOf(dt.t) ELSE 0

(***************************************************************************)
(* coords_from_address.  An address is [latitude, longitude, rawAddress];  *)
(* a missing or empty address object has all three absent.                 *)
(***************************************************************************)
NoAddress == [latitude |-> NoNum, longitude |-> NoNum, rawAddress |-> None]

coords_from_address(addr) ==
    IF addr = NoAddress THEN [lat |-> NoNum, lon |-> NoNum, raw |-> None]
    ELSE IF addr.latitude.kind # "none" /\ addr.longitude.kind # "none"
            /\ IsFloat(addr.latitude) /\ IsFloat(addr.longitude)
    THEN [lat |-> addr.latitude, lon |-> addr.longitude, raw |-> addr.rawAddress]
    ELSE [lat |-> NoNum, lon |-> NoNum, raw |-> addr.rawAddress]

\* The index is consulted whether or not the address gave coordinates.
ResolveCodeAlways(c, airport_index) ==
    LET code == iata_from_raw(c.raw)
    IN  IF code # None /\ code \in DOMAIN airport_index
        THEN [lat |-> Num(airport_index[code].lat),
              lon |-> Num(airport_index[code].lon), raw |-> c.raw]
        ELSE c

\* Lines 265-272 and 274-281: fill missing coordinates from the airport index.
ResolveCode(c, airport_index) ==
    IF c.lat.kind = "none" \/ c.lon.kind = "none"
    THEN LET code == iata_from_raw(c.raw)
         IN  IF code # None /\ code \in DOMAIN airport_index
             THEN [lat |-> Num(airport_index[code].lat),
                   lon |-> Num(airport_index[code].lon), raw |-> c.raw]
             ELSE c
    ELSE c

UnresolvedSlip(dep, arr) ==
    dep.lat.kind = "none" \/ dep.lon.kind = "none"
        \/ arr.lat.kind = "none" \/ arr.lon.kind # "none"

\* Line 283: can't map it; skip.
Unresolved(dep, arr) ==
    dep.lat.kind = "none" \/ dep.lon.kind = "none"
        \/ arr.lat.kind = "none" \/ arr.lon.kind = "none"

(***************************************************************************)
(* Inputs of the resolver                                                  *)
(***************************************************************************)
\* File stems of the *.txt documents, in ascending order of name.
StemNames == <<"a", "b", "c", "d">>

\* The directory holds the first MaxDocs of them.
Directory == {<<StemNames[i]>> : i \in 1..MaxDocs}

\* raw_dir.glob("*.txt") yields the paths in an order the file system
\* chooses: any enumeration of the directory.
Listings ==
    {l \in [1..MaxDocs -> Directory] : \A i, j \in 1..MaxDocs : l[i] = l[j] => i = j}

Descending == [i \in 1..MaxDocs |-> <<StemNames[MaxDocs + 1 - i]>>]

\* Paths compare by name.
NameRank(p) == CHOOSE i \in 1..Len(StemNames) : <<StemNames[i]>> = p

RECURSIVE InsertByName(_, _)
InsertByName(xs, p) ==
    IF xs = <<>> THEN <<p>>
    ELSE IF NameRank(p) < NameRank(xs[Len(xs)])
    THEN Append(InsertByName(SubSeq(xs, 1, Len(xs) - 1), p), xs[Len(xs)])
    ELSE Append(xs, p)

\* The paths are walked as glob yields them.
SortedPathsNot(xs) == xs

\* Line 202: sorted(raw_dir.glob("*.txt"))
RECURSIVE SortedPaths(_)
SortedPaths(xs) ==
    IF xs = <<>> THEN <<>>
    ELSE InsertByName(SortedPaths(SubSeq(xs, 1, Len(xs) - 1)), xs[Len(xs)])

Digits == <<"0", "1", "2", "3", "4", "5", "6", "7", "8", "9">>

\* str() of a small non-negative integer.
IntText(n) == <<Digits[n + 1]>>

MNL == <<"M","N","L">>

\* The airport datasets the resolver runs are given: MNL is in both, BER only
\* in the secondary one, LGP in neither.
DefaultCsv ==
    << [iata_code |-> MNL, latitude_deg |-> Num(145086), longitude_deg |-> Num(1210194),
        name |-> <<"N","A","I","A">>, iso_country |-> <<"P","H">>] >>

DefaultDat ==
    << <<None, <<"B","E","R">>, None, None, BER, None, Num(523667), Num(135033)>>,
       <<None, <<"M">>, None, None, MNL, None, Num(1), Num(2)>> >>

Direct == [latitude |-> Num(10), longitude |-> Num(20), rawAddress |-> MNL]

ByCode == [latitude |-> NoNum, longitude |-> NoNum,
           rawAddress |-> <<"M","N","L"," ","(","M","N","L",")">>]

LatOnly == [latitude |-> Num(10), longitude |-> NoNum, rawAddress |-> LGP]

BadLat == [latitude |-> BadNum, longitude |-> Num(20), rawAddress |-> <<"t","x","l">>]

FreeText == [latitude |-> NoNum, longitude |-> NoNum,
             rawAddress |-> <<"B","e","r","l","i","n"," ","H","b","f">>]

UnknownCode == [latitude |-> NoNum, longitude |-> NoNum,
                rawAddress |-> <<"(","Z","Z","Z",")">>]

NoDate == [fmt |-> "none", t |-> 0]

BadDate == [fmt |-> "bad", t |-> 0]

Date(t) == [fmt |-> "frac", t |-> t]

PlainDate(t) == [fmt |-> "plain", t |-> t]

Seg(dd, dz, ad, az, da, aa) ==
    [departureDate |-> dd, departureTimeZoneID |-> dz,
     arrivalDate |-> ad, arrivalTimeZoneID |-> az,
     departureAddress |-> da, arrivalAddress |-> aa]

SegInputs ==
    { Seg(NoDate, "", PlainDate(2), "Nowhere/Unknown", Direct, Direct),
      Seg(Date(2), "Asia/Manila", Date(3), "Asia/Manila", BadLat, LatOnly),
      Seg(Date(1), "Asia/Manila", BadDate, "", ByCode, UnknownCode),
      Seg(Date(1), "Asia/Manila", BadDate, "", FreeText, ByCode),
      Seg(Date(1), "Asia/Manila", BadDate, "", NoAddress, NoAddress) }

Flight == <<"F","l","i","g","h","t">>

Ev(ui, hasid, id, addr, vs, ve) ==
    [UIDescription |-> ui, has_id |-> hasid, id |-> id, address |-> addr,
     venueStartDate |-> vs, venueEndDate |-> ve]

EventInputs ==
    { Ev(Flight, FALSE, 0, NoAddress, NoDate, NoDate),
      Ev(None, TRUE, 1, NoAddress, NoDate, NoDate),
      Ev(<<"H","O","T","E","L">>, FALSE, 0, Direct, Date(2), Date(3)),
      Ev(<<"H","o","t","e","l">>, FALSE, 0, FreeText, Date(2), Date(3)),
      Ev(<<"h","o","t","e","l">>, FALSE, 0, LatOnly, Date(2), Date(3)),
      Ev(<<"h","o","t","e","l">>, FALSE, 0, BadLat, Date(2), Date(3)) }

\* A parsed document: tripID absent or given.
DocInputs == { [tripID |-> None], [tripID |-> <<"g">>] }

(***************************************************************************)
(* State                                                                   *)
(***************************************************************************)
VARIABLES
    pc,               \* where the run stands: "doc" (before a document),
                      \* "event" (inside a document, before an event), "seg"
                      \* (inside an event, before a segment), "done";
                      \* "raised" once an exception has left main
    airport_index,    \* the index collect_segments is given
    listing,          \* the paths in the order raw_dir.glob("*.txt") yields them
    doc_i,            \* documents taken from sorted(raw_dir.glob("*.txt"))
    stem,             \* p.stem
    trip_group_key,
    ev_i,
    trip_key,
    t,
    seg_count,
    start_dt,
    end_dt,
    segments,
    event_summaries,
    trip_groups,      \* summary["tripGroups"]
    docs_seen,        \* history: the documents read, [stem, parsed]
    events_seen,      \* history: the events read, [ev, input]
    segs_seen,        \* history: the segments read, [ev, resolvable, departure, arrival]
    raw,              \* code extractor: the text given
    code,             \* code extractor: what iata_from_raw returned
    airports_csv,     \* index builder: rows of the primary dataset not yet read
    openflights_dat,  \* index builder: lines of the secondary dataset not yet read
    idx,              \* index builder: the index under construction
    ipc,              \* index builder: "csv", "dat", "manual", "done"
    csv_in,           \* history: the primary dataset as given
    dat_in            \* history: the secondary dataset as given

resolver_vars == <<pc, doc_i, stem, trip_group_key, ev_i, trip_key, t, seg_count,
                   start_dt, end_dt, segments, event_summaries, trip_groups,
                   docs_seen, events_seen, segs_seen>>

extractor_vars == <<raw, code>>

builder_vars == <<airports_csv, openflights_dat, idx, ipc, csv_in, dat_in>>

vars == <<resolver_vars, airport_index, listing, extractor_vars, builder_vars>>

ToLower == [c \in AZ |-> LowerLetters[CHOOSE i \in 1..26 : UpperLetters[i] = c]]

LowerChar(c) == IF c \in DOMAIN ToLower THEN ToLower[c] ELSE c

Lower(s) == [i \in 1..Len(s) |-> LowerChar(s[i])]

HotelLower == <<"h","o","t","e","l">>

HotelType == <<"H","o","t","e","l">>

OtherType == <<"O","t","h","e","r">>

\* Line 213: t = ev.get("UIDescription") or "Other"
TypeOf(ev) == IF ev.UIDescription = None THEN OtherType ELSE ev.UIDescription

\* Line 214: trip_key = f"{p.stem}:{ev.get('id', ev_i)}"
TripKey(p_stem, ev, i) ==
    p_stem \o <<":">> \o IntText(IF ev.has_id THEN ev.id ELSE i)

\* Line 208: trip_group_key = str(obj.get("tripID") or p.stem)
TripGroupKey(obj, p_stem) == IF obj.tripID # None THEN obj.tripID ELSE p_stem

IsLodgingCaseSensitive(ev) ==
    TypeOf(ev) = HotelType /\ ev.address.latitude.kind # "none"

\* Line 217: the lodging branch is taken
IsLodging(ev) ==
    Lower(TypeOf(ev)) = HotelLower /\ ev.address.latitude.kind # "none"

\* The identity of the event being read (not a value of the program).
ThisEvent == <<stem, ev_i>>

\* History only: what the input says about an endpoint, whatever the resolver
\* makes of it: it has direct coordinates, or its text names an indexed airport.
HasDirect(addr) == addr.latitude.kind = "num" /\ addr.longitude.kind = "num"

HasIndexedCode(addr) ==
    iata_from_raw(addr.rawAddress) # None
        /\ iata_from_raw(addr.rawAddress) \in DOMAIN airport_index

Resolvable(seg) ==
    /\ HasDirect(seg.departureAddress) \/ HasIndexedCode(seg.departureAddress)
    /\ HasDirect(seg.arrivalAddress) \/ HasIndexedCode(seg.arrivalAddress)

InitResolver ==
    /\ pc = "doc"
    /\ doc_i = 0
    /\ stem = None
    /\ trip_group_key = None
    /\ ev_i = 0
    /\ trip_key = None
    /\ t = None
    /\ seg_count = 0
    /\ start_dt = NoDt
    /\ end_dt = NoDt
    /\ segments = <<>>
    /\ event_summaries = <<>>
    /\ trip_groups = <<>>
    /\ docs_seen = <<>>
    /\ events_seen = <<>>
    /\ segs_seen = <<>>

IdleExtractor == raw = None /\ code = None

IdleBuilder ==
    /\ airports_csv = <<>>
    /\ openflights_dat = <<>>
    /\ idx = EmptyIndex
    /\ ipc = "done"
    /\ csv_in = <<>>
    /\ dat_in = <<>>

Init ==
    /\ InitResolver
    /\ listing = Descending
    /\ airport_index = load_iata_index(DefaultCsv, DefaultDat)
    /\ IdleExtractor
    /\ IdleBuilder

Others == UNCHANGED <<airport_index, listing, extractor_vars, builder_vars>>

\* Lines 202 and 212: the run stands between two documents: at its start,
\* after a rejected document, or with the events of a document exhausted.
BetweenDocuments == pc \in {"doc", "event"}

LoadFailurePropagates == "raised"

\* Lines 205-206: except Exception: continue
AfterLoadFailure == "doc"

\* Lines 202-206, json.loads raises: the document is skipped.
SkipDocument ==
    /\ BetweenDocuments
    /\ doc_i < Len(SortedPaths(listing))
    /\ doc_i' = doc_i + 1
    /\ stem' = SortedPaths(listing)[doc_i + 1]
    /\ pc' = AfterLoadFailure
    /\ docs_seen' = Append(docs_seen, [stem |-> stem', parsed |-> FALSE])
    /\ UNCHANGED <<trip_group_key, ev_i, trip_key, t, seg_count, start_dt, end_dt,
                   segments, event_summaries, trip_groups, events_seen, segs_seen>>
    /\ Others

\* Lines 202-211: the document parses.  A document is opened while the run
\* may still read an event of it.
OpenDocument ==
    /\ BetweenDocuments
    /\ doc_i < Len(SortedPaths(listing))
    /\ Len(events_seen) < MaxEvents
    /\ \E obj \in DocInputs :
        /\ doc_i' = doc_i + 1
        /\ stem' = SortedPaths(listing)[doc_i + 1]
        /\ trip_group_key' = TripGroupKey(obj, stem')
        /\ ev_i' = 0
        /\ pc' = "event"
        /\ docs_seen' = Append(docs_seen, [stem |-> stem', parsed |-> TRUE])
    /\ UNCHANGED <<trip_key, t, seg_count, start_dt, end_dt,
                   segments, event_summaries, trip_groups, events_seen, segs_seen>>
    /\ Others

HotelSummary(ev, key) ==
    LET start == parse_dt(ev.venueStartDate, "")
        end == parse_dt(ev.venueEndDate, "")
    IN  [tripGroupKey |-> trip_group_key, tripKey |-> key, type |-> HotelType,
         year |-> YearOrNone(start), start |-> dt_iso(start), end |-> dt_iso(end),
         segmentCount |-> 0, ev |-> ThisEvent]

\* Lines 212-236: a lodging event whose address has a latitude.  float() of a
\* missing longitude or of text that is no number raises.
HotelEvent ==
    /\ pc = "event"
    /\ Len(events_seen) < MaxEvents
    /\ \E ev \in EventInputs :
        /\ IsLodging(ev)
        /\ t' = TypeOf(ev)
        /\ trip_key' = TripKey(stem, ev, ev_i)
        /\ events_seen' = Append(events_seen, [ev |-> ThisEvent, input |-> ev])
        /\ IF IsFloat(ev.address.latitude) /\ IsFloat(ev.address.longitude)
           THEN /\ event_summaries' = Append(event_summaries, HotelSummary(ev, trip_key'))
                /\ ev_i' = ev_i + 1
                /\ pc' = "event"
           ELSE /\ pc' = "raised"
                /\ UNCHANGED <<event_summaries, ev_i>>
    /\ UNCHANGED <<doc_i, stem, trip_group_key, seg_count, start_dt, end_dt,
                   segments, trip_groups, docs_seen, segs_seen>>
    /\ Others

\* Lines 212-214 and 238-242: any other event starts its walk over the legs.
\* The walk starts while the run may still read an event and a segment.
TransportEvent ==
    /\ pc = "event"
    /\ Len(events_seen) < MaxEvents
    /\ Len(segs_seen) < MaxSegs
    /\ \E ev \in EventInputs :
        /\ ~IsLodging(ev)
        /\ t' = TypeOf(ev)
        /\ trip_key' = TripKey(stem, ev, ev_i)
        /\ events_seen' = Append(events_seen, [ev |-> ThisEvent, input |-> ev])
    /\ seg_count' = 0
    /\ start_dt' = NoDt
    /\ end_dt' = NoDt
    /\ pc' = "seg"
    /\ UNCHANGED <<doc_i, stem, trip_group_key, ev_i,
                   segments, event_summaries, trip_groups, docs_seen, segs_seen>>
    /\ Others

\* The first departure met stays the start.
MinStartFirst(cur, dep_dt) ==
    IF dep_dt.some /\ ~cur.some THEN dep_dt ELSE cur

\* Lines 250-251: the running minimum of the departures.
MinStart(cur, dep_dt) ==
    IF dep_dt.some /\ (~cur.some \/ DtLess(dep_dt, cur)) THEN dep_dt ELSE cur

\* Lines 252-253: the running maximum of the arrivals.
MaxEnd(cur, arr_dt) ==
    IF arr_dt.some /\ (~cur.some \/ DtLess(cur, arr_dt)) THEN arr_dt ELSE cur

\* Lines 250 and 252: the comparison is made, and raises TypeError.
CompareRaises(cur, dt) == dt.some /\ cur.some /\ ~Comparable(dt, cur)

\* Lines 290-303
SegmentRecord(seg, dep, arr) ==
    [trip_group_key |-> trip_group_key, trip_key |-> trip_key, type |-> t,
     departure |-> parse_dt(seg.departureDate, seg.departureTimeZoneID),
     arrival |-> parse_dt(seg.arrivalDate, seg.arrivalTimeZoneID),
     from_lat |-> dep.lat, from_lon |-> dep.lon,
     to_lat |-> arr.lat, to_lon |-> arr.lon,
     ev |-> ThisEvent, input |-> seg]

\* Lines 244-303: the next segment of the event, in the current leg or in a
\* later one (a leg without segments contributes no iteration).
Segment ==
    /\ pc = "seg"
    /\ Len(segs_seen) < MaxSegs
    /\ \E seg \in SegInputs :
        LET dep_dt == parse_dt(seg.departureDate, seg.departureTimeZoneID)
            arr_dt == parse_dt(seg.arrivalDate, seg.arrivalTimeZoneID)
            dep == ResolveCode(coords_from_address(seg.departureAddress), airport_index)
            arr == ResolveCode(coords_from_address(seg.arrivalAddress), airport_index)
        IN  /\ segs_seen' = Append(segs_seen, [ev |-> ThisEvent, resolvable |-> Resolvable(seg),
                                               departure |-> dep_dt, arrival |-> arr_dt])
            /\ seg_count' = seg_count + 1
            /\ IF CompareRaises(start_dt, dep_dt) \/ CompareRaises(end_dt, arr_dt)
               THEN /\ pc' = "raised"
                    /\ UNCHANGED <<start_dt, end_dt, segments>>
               ELSE /\ start_dt' = MinStart(start_dt, dep_dt)
                    /\ end_dt' = MaxEnd(end_dt, arr_dt)
                    /\ IF Unresolved(dep, arr)
                       THEN /\ pc' = "seg"
                            /\ UNCHANGED segments
                       ELSE IF IsFloat(dep.lat) /\ IsFloat(dep.lon)
                               /\ IsFloat(arr.lat) /\ IsFloat(arr.lon)
                       THEN /\ pc' = "seg"
                            /\ segments' = Append(segments, SegmentRecord(seg, dep, arr))
                       ELSE /\ pc' = "raised"
                            /\ UNCHANGED segments
    /\ UNCHANGED <<doc_i, stem, trip_group_key, ev_i, trip_key, t,
                   event_summaries, trip_groups, docs_seen, events_seen>>
    /\ Others

\* Line 315: len([s for s in segments if s.trip_key == trip_key])
SegmentCount(segs, key) ==
    Cardinality({i \in 1..Len(segs) : segs[i].trip_key = key})

EmitsSummaryIfSurvivor(segs, key, count) == SegmentCount(segs, key) > 0

\* Line 305: if seg_count > 0
EmitsSummary(segs, key, count) == count > 0

\* Lines 306-316
EventSummary ==
    [tripGroupKey |-> trip_group_key, tripKey |-> trip_key, type |-> t,
     year |-> YearOrNone(start_dt), start |-> dt_iso(start_dt), end |-> dt_iso(end_dt),
     segmentCount |-> SegmentCount(segments, trip_key), ev |-> ThisEvent]

\* Lines 305-316: the legs of the event are exhausted.
EndEvent ==
    /\ pc = "seg"
    /\ event_summaries' =
         IF EmitsSummary(segments, trip_key, seg_count)
         THEN Append(event_summaries, EventSummary) ELSE event_summaries
    /\ ev_i' = ev_i + 1
    /\ pc' = "event"
    /\ UNCHANGED <<doc_i, stem, trip_group_key, trip_key, t, seg_count, start_dt, end_dt,
                   segments, trip_groups, docs_seen, events_seen, segs_seen>>
    /\ Others

(***************************************************************************)
(* main, lines 724-758: the grouping of the event summaries.  An ISO text  *)
(* is [some, t, utc]; texts compare as Python strings do: by the reading,  *)
(* and at equal readings the text without +00:00 is a proper prefix of the *)
(* one with it.                                                            *)
(***************************************************************************)
IsoLess(a, b) == a.t < b.t \/ (a.t = b.t /\ ~a.utc /\ b.utc)

\* x.get('start') or '' as a sort key: '' is below every text.
KeyLess(a, b) == IF ~a.some THEN b.some ELSE (b.some /\ IsoLess(a, b))

NewGroup(e) ==
    [tripGroupKey |-> e.tripGroupKey, year |-> e.year, start |-> e.start,
     end |-> e.end, events |-> <<>>]

\* The group keeps the range of the summary that opened it.
AddToGroupKeepRange(g, e) == [g EXCEPT !.events = Append(g.events, e)]

\* Lines 741-748
AddToGroup(g, e) ==
    [g EXCEPT
        !.events = Append(g.events, e),
        !.start = IF e.start.some /\ (~g.start.some \/ IsoLess(e.start, g.start))
                  THEN e.start ELSE g.start,
        !.end = IF e.end.some /\ (~g.end.some \/ IsoLess(g.end, e.end))
                THEN e.end ELSE g.end,
        !.year = IF e.year # 0 /\ (g.year = 0 \/ e.year < g.year)
                 THEN e.year ELSE g.year]

\* Lines 726-748; groups keep the order in which their keys first appear.
RECURSIVE GroupEvents(_, _)
GroupEvents(groups, events) ==
    IF events = <<>> THEN groups
    ELSE LET e == Head(events)
             gk == e.tripGroupKey
         IN  IF gk = None THEN GroupEvents(groups, Tail(events))
             ELSE LET at == {i \in 1..Len(groups) : groups[i].tripGroupKey = gk}
                      gs == IF at = {} THEN Append(groups, NewGroup(e)) ELSE groups
                      i == CHOOSE j \in 1..Len(gs) : gs[j].tripGroupKey = gk
                  IN  GroupEvents([gs EXCEPT ![i] = AddToGroup(gs[i], e)], Tail(events))

\* sorted(xs, key=start or ''): stable, ascending.
RECURSIVE InsertByStart(_, _)
InsertByStart(sorted, x) ==
    IF sorted = <<>> THEN <<x>>
    ELSE IF KeyLess(x.start, sorted[Len(sorted)].start)
    THEN Append(InsertByStart(SubSeq(sorted, 1, Len(sorted) - 1), x), sorted[Len(sorted)])
    ELSE Append(sorted, x)

\* The collection is left in the order it was built in.
SortedByStartNot(xs) == xs

RECURSIVE SortedByStart(_)
SortedByStart(xs) ==
    IF xs = <<>> THEN <<>>
    ELSE InsertByStart(SortedByStart(SubSeq(xs, 1, Len(xs) - 1)), xs[Len(xs)])

\* Lines 750-758
TripGroups(events) ==
    LET groups == GroupEvents(<<>>, events)
        inside == [i \in 1..Len(groups) |->
                      [groups[i] EXCEPT !.events = SortedByStart(groups[i].events)]]
    IN  SortedByStart(inside)

\* Lines 202 and 318, then 718-758: the documents are exhausted,
\* collect_segments returns and main groups the summaries.
Main ==
    /\ BetweenDocuments
    /\ doc_i = Len(SortedPaths(listing))
    /\ trip_groups' = TripGroups(event_summaries)
    /\ pc' = "done"
    /\ UNCHANGED <<doc_i, stem, trip_group_key, ev_i, trip_key, t, seg_count,
                   start_dt, end_dt, segments, event_summaries,
                   docs_seen, events_seen, segs_seen>>
    /\ Others

Next ==
    \/ SkipDocument
    \/ OpenDocument
    \/ HotelEvent
    \/ TransportEvent
    \/ Segment
    \/ EndEvent
    \/ Main

Spec == Init /\ [][Next]_vars

(***************************************************************************)
(* The resolver over the same directory, the file system yielding its      *)
(* paths in any order.                                                     *)
(***************************************************************************)
InitListing ==
    /\ InitResolver
    /\ listing \in Listings
    /\ airport_index = load_iata_index(DefaultCsv, DefaultDat)
    /\ IdleExtractor
    /\ IdleBuilder

SpecListing == InitListing /\ [][Next]_vars

(***************************************************************************)
(* The code extractor on its own: a text is given, iata_from_raw is        *)
(* applied to it.                                                          *)
(***************************************************************************)
MaxTokens == 3

LHR == <<"L","H","R">>
CDG == <<"C","D","G">>

Tokens ==
    { MNL, LHR, <<"t","x","l">>, <<"(","M","N","L",")">>, <<"(","C","D","G",")">>,
      <<"(","s","x","f",")">>, <<" ">>, <<"(">>, <<"H","b","f">>, <<".">>, <<"\n">> }

RECURSIVE TextsUpTo(_)
TextsUpTo(n) ==
    IF n = 0 THEN {<<>>}
    ELSE LET shorter == TextsUpTo(n - 1)
         IN  shorter \cup {x \o tok : x \in shorter, tok \in Tokens}

BerlinHbf == <<"B","e","r","l","i","n"," ","H","b","f">>

YucMexico == <<".",".",".",","," ","Y","U","C",".",","," ","M","e","x","i","c","o">>

\* Texts given beside the ones built from the tokens: the free texts of the
\* comment of lines 153-154, and NYC in mixed case on either path.
NamedTexts ==
    { BerlinHbf, YucMexico, <<"n","Y","c">>, <<"T","x","L"," ">>,
      <<"a","t"," ","(","N","y","c",")","!">>,
      <<"J","F","K"," ","(","n","y","c",")">> }

RawInputs == TextsUpTo(MaxTokens) \cup NamedTexts

\* No call has returned yet.
Pending == <<"?">>

InitExtractor ==
    /\ InitResolver
    /\ listing = Descending
    /\ airport_index = load_iata_index(DefaultCsv, DefaultDat)
    /\ IdleBuilder
    /\ raw \in RawInputs
    /\ code = Pending

Extract ==
    /\ code = Pending
    /\ code' = iata_from_raw(raw)
    /\ UNCHANGED <<raw, resolver_vars, airport_index, listing, builder_vars>>

NextExtractor == Extract

SpecExtractor == InitExtractor /\ [][NextExtractor]_vars

(***************************************************************************)
(* The index builder on its own: load_iata_index over given datasets, one  *)
(* row per step.                                                           *)
(***************************************************************************)
CsvRow(c, lat, lon, n, iso) ==
    [iata_code |-> c, latitude_deg |-> lat, longitude_deg |-> lon,
     name |-> n, iso_country |-> iso]

CsvRows ==
    { CsvRow(LGP, Num(1), Num(2), <<"P">>, <<"p","h">>),
      CsvRow(<<" ","m","n","l">>, Num(3), Num(4), <<" ","N"," ">>, None),
      CsvRow(MNL, BadNum, Num(4), <<"N">>, <<"P","H">>),
      CsvRow(MNL, Num(5), NoNum, <<"N">>, <<"P","H">>),
      CsvRow(<<"A","B">>, Num(5), Num(6), <<"X">>, None),
      CsvRow(MNL, Num(5), Num(6), <<"M">>, <<"P","H">>),
      CsvRow(None, Num(5), Num(6), <<"E">>, None) }

DatLine(n, c, lat, lon) == <<None, n, None, None, c, None, lat, lon>>

DatLines ==
    { DatLine(<<"S">>, MNL, Num(7), Num(8)),
      DatLine(<<"L">>, LGP, Num(9), Num(10)),
      DatLine(<<"Q">>, MissingMarker, Num(9), Num(10)),
      <<None, <<"B">>, None, None, BER, None, Num(11)>>,
      DatLine(<<"B">>, BER, Num(11), BadNum),
      DatLine(<<" ","B">>, BER, Num(11), Num(12)),
      DatLine(<<"b">>, <<"b","e","r"," ">>, Num(13), Num(14)) }

RECURSIVE SeqsUpTo(_, _)
SeqsUpTo(S, n) ==
    IF n = 0 THEN {<<>>}
    ELSE LET shorter == SeqsUpTo(S, n - 1)
         IN  shorter \cup {Append(x, e) : x \in shorter, e \in S}

InitBuilder ==
    /\ InitResolver
    /\ listing = Descending
    /\ airport_index = EmptyIndex
    /\ IdleExtractor
    /\ airports_csv \in SeqsUpTo(CsvRows, MaxRows)
    /\ openflights_dat \in SeqsUpTo(DatLines, MaxRows)
    /\ csv_in = airports_csv
    /\ dat_in = openflights_dat
    /\ idx = EmptyIndex
    /\ ipc = "csv"

BuilderOthers ==
    UNCHANGED <<resolver_vars, airport_index, listing, extractor_vars, csv_in, dat_in>>

\* Lines 101-112
ReadCsvRow ==
    /\ ipc = "csv"
    /\ airports_csv # <<>>
    /\ idx' = PrimaryRow(idx, Head(airports_csv))
    /\ airports_csv' = Tail(airports_csv)
    /\ UNCHANGED <<openflights_dat, ipc>>
    /\ BuilderOthers

CsvDone ==
    /\ ipc = "csv"
    /\ airports_csv = <<>>
    /\ ipc' = "dat"
    /\ UNCHANGED <<airports_csv, openflights_dat, idx>>
    /\ BuilderOthers

\* Lines 117-135
ReadDatLine ==
    /\ ipc = "dat"
    /\ openflights_dat # <<>>
    /\ idx' = SecondaryRow(idx, Head(openflights_dat))
    /\ openflights_dat' = Tail(openflights_dat)
    /\ UNCHANGED <<airports_csv, ipc>>
    /\ BuilderOthers

DatDone ==
    /\ ipc = "dat"
    /\ openflights_dat = <<>>
    /\ ipc' = "manual"
    /\ UNCHANGED <<airports_csv, openflights_dat, idx>>
    /\ BuilderOthers

\* Lines 138-142
Manual ==
    /\ ipc = "manual"
    /\ idx' = ApplyManual(idx)
    /\ ipc' = "done"
    /\ UNCHANGED <<airports_csv, openflights_dat>>
    /\ BuilderOthers

NextBuilder ==
    \/ ReadCsvRow
    \/ CsvDone
    \/ ReadDatLine
    \/ DatDone
    \/ Manual

SpecBuilder == InitBuilder /\ [][NextBuilder]_vars

(***************************************************************************)
(* Vocabulary of the properties                                            *)
(***************************************************************************)
SegsOf(e) == SelectSeq(segments, LAMBDA x : x.ev = e)

SummariesOf(e) == SelectSeq(event_summaries, LAMBDA x : x.ev = e)

SeenSegsOf(e) == SelectSeq(segs_seen, LAMBDA x : x.ev = e)

ResolvableSegsOf(e) == SelectSeq(segs_seen, LAMBDA x : x.ev = e /\ x.resolvable)

\* The event is still being walked, or the exception that ended the run
\* was raised inside it.
InProgress(e) == e = ThisEvent /\ pc \in {"seg", "raised"}

\* The events the resolver is through with.
Completed == {k \in 1..Len(events_seen) : ~InProgress(events_seen[k].ev)}

HotelCategory(ev) == Lower(TypeOf(ev)) = HotelLower

Present(c) == c.kind = "num"

(***************************************************************************)
(* C1: as long as no exception has ended the run, every Segment collected  *)
(* has its four coordinates, and the Segments of an event are as many as   *)
(* the segments read for it whose two endpoints are resolvable (directly   *)
(* or through the index): an unresolvable endpoint yields no Segment, two  *)
(* resolvable ones yield one.                                              *)
(***************************************************************************)
C1_SegmentsResolved ==
    pc # "raised" =>
        /\ \A i \in 1..Len(segments) :
               /\ Present(segments[i].from_lat) /\ Present(segments[i].from_lon)
               /\ Present(segments[i].to_lat) /\ Present(segments[i].to_lon)
               /\ \E k \in 1..Len(events_seen) : events_seen[k].ev = segments[i].ev
        /\ \A k \in 1..Len(events_seen) :
               Len(SegsOf(events_seen[k].ev)) = Len(ResolvableSegsOf(events_seen[k].ev))

C1_Witness ==
    /\ pc = "done"
    /\ \E k \in 1..Len(events_seen) :
           LET e == events_seen[k].ev
           IN  /\ Len(SeenSegsOf(e)) = 2
               /\ Len(ResolvableSegsOf(e)) = 1
               /\ Len(SegsOf(e)) = 1

C3_SegmentCountOwn ==
    \A k \in Completed :
        ~HotelCategory(events_seen[k].input) =>
            \A i \in 1..Len(SummariesOf(events_seen[k].ev)) :
                SummariesOf(events_seen[k].ev)[i].segmentCount
                    = Len(SegsOf(events_seen[k].ev))

(***************************************************************************)
(* C4: a completed event of the Hotel category (in any letter case) whose  *)
(* address has numeric latitude and longitude has exactly one              *)
(* EventSummary; its type is Hotel, its segmentCount 0, its start and end  *)
(* are the venue dates (absent when they do not parse), its year is the    *)
(* year of the venue start; no segment of it was read, none was emitted.   *)
(***************************************************************************)
VenueIso(d) ==
    IF d.fmt \in {"frac", "plain"} THEN [some |-> TRUE, t |-> d.t, utc |-> FALSE]
    ELSE NoIso

VenueYear(d) == IF d.fmt \in {"frac", "plain"} THEN YearOf(d.t) ELSE 0

C4_LodgingWithCoordinates ==
    \A k \in Completed :
        LET ev == events_seen[k].input
            e == events_seen[k].ev
            own == SummariesOf(e)
        IN  (HotelCategory(ev) /\ HasDirect(ev.address)) =>
                /\ Len(own) = 1
                /\ own[1].type = HotelType
                /\ own[1].segmentCount = 0
                /\ own[1].start = VenueIso(ev.venueStartDate)
                /\ own[1].end = VenueIso(ev.venueEndDate)
                /\ own[1].year = VenueYear(ev.venueStartDate)
                /\ SegsOf(e) = <<>>
                /\ SeenSegsOf(e) = <<>>

C4_Witness ==
    /\ pc = "done"
    /\ segments # <<>>
    /\ \E k \in Completed :
           /\ HotelCategory(events_seen[k].input)
           /\ TypeOf(events_seen[k].input) # HotelType
           /\ HasDirect(events_seen[k].input.address)
           /\ SummariesOf(events_seen[k].ev) # <<>>
           /\ SummariesOf(events_seen[k].ev)[1].year = 2025

(***************************************************************************)
(* C5 as stated: a completed event of the Hotel category whose address has *)
(* no latitude has an EventSummary and no Segment.                         *)
(***************************************************************************)
C5_LodgingWithoutCoordinates ==
    \A k \in Completed :
        LET ev == events_seen[k].input
            e == events_seen[k].ev
        IN  (HotelCategory(ev) /\ ev.address.latitude.kind = "none") =>
                (SummariesOf(e) # <<>> /\ SegsOf(e) = <<>>)

(***************************************************************************)
(* C6 as stated: no two EventSummaries share a trip key, and when the run  *)
(* is done every Segment's trip key is the trip key of exactly one         *)
(* EventSummary.                                                           *)
(***************************************************************************)
C6_TripKeysUnique ==
    /\ \A i, j \in 1..Len(event_summaries) :
           event_summaries[i].tripKey = event_summaries[j].tripKey => i = j
    /\ pc = "done" =>
           \A n \in 1..Len(segments) :
               Cardinality({i \in 1..Len(event_summaries) :
                               event_summaries[i].tripKey = segments[n].trip_key}) = 1

(***************************************************************************)
(* C7 as stated: no input makes an exception leave the run.                *)
(***************************************************************************)
C7_NeverRaises == pc # "raised"

(***************************************************************************)
(* C8: the step that meets a document json.loads rejects changes nothing   *)
(* but the position in the directory: Segments, EventSummaries and every   *)
(* value the later documents are processed with stay as they are, and the  *)
(* run stands ready for the next document; and no Segment or EventSummary  *)
(* ever comes from a rejected document.                                    *)
(***************************************************************************)
Rejected == {docs_seen[i].stem : i \in {j \in 1..Len(docs_seen) : ~docs_seen[j].parsed}}

RejectsDocument ==
    /\ Len(docs_seen') = Len(docs_seen) + 1
    /\ ~docs_seen'[Len(docs_seen')].parsed

C8_BadDocumentSkipped ==
    [][ /\ RejectsDocument =>
            /\ pc' = "doc"
            /\ UNCHANGED <<segments, event_summaries, trip_groups, trip_group_key, ev_i,
                           trip_key, t, seg_count, start_dt, end_dt, events_seen, segs_seen>>
        /\ \A i \in 1..Len(segments') : segments'[i].ev[1] \notin Rejected'
        /\ \A i \in 1..Len(event_summaries') : event_summaries'[i].ev[1] \notin Rejected'
      ]_vars

C8_Witness ==
    /\ pc = "done"
    /\ \E i, j \in 1..Len(docs_seen) :
           /\ i < j
           /\ ~docs_seen[i].parsed
           /\ docs_seen[j].parsed
           /\ \E n \in 1..Len(event_summaries) : event_summaries[n].ev[1] = docs_seen[j].stem
    /\ segments # <<>>

(***************************************************************************)
(* C9: when load_iata_index is done, the record of every code is decided   *)
(* by precedence.  A row is valid when its code, trimmed, has three        *)
(* characters and its latitude and longitude are numbers (a secondary line *)
(* also needs its 8 fields).  If the primary dataset has valid rows for    *)
(* the code, the record is that of the last of them; else, if the          *)
(* secondary dataset has valid lines for it, the record is that of the     *)
(* first of them, without a country; else, if the manual table has the     *)
(* code, the record is the manual one; else the code is not in the index.  *)
(* LGP, when only the manual table has it, maps to                         *)
(* (13.1575, 123.7350, "Legazpi Airport", "PH").                           *)
(***************************************************************************)
CodeOf(c) == Upper(Strip(c))

ValidCsv(code_) ==
    {i \in 1..Len(csv_in) :
        /\ CodeOf(csv_in[i].iata_code) = code_
        /\ Len(code_) = 3
        /\ csv_in[i].latitude_deg.kind = "num"
        /\ csv_in[i].longitude_deg.kind = "num"}

ValidDat(code_) ==
    {i \in 1..Len(dat_in) :
        /\ Len(dat_in[i]) >= 8
        /\ CodeOf(dat_in[i][5]) = code_
        /\ Len(code_) = 3
        /\ dat_in[i][7].kind = "num"
        /\ dat_in[i][8].kind = "num"}

CsvRecord(row) ==
    [lat |-> row.latitude_deg.val, lon |-> row.longitude_deg.val,
     name |-> Strip(row.name), iso_country |-> Upper(Strip(row.iso_country))]

DatRecord(line) ==
    [lat |-> line[7].val, lon |-> line[8].val, name |-> Strip(line[2]), iso_country |-> None]

Last(S) == CHOOSE i \in S : \A j \in S : j <= i

First(S) == CHOOSE i \in S : \A j \in S : i <= j

CodesGiven ==
    {CodeOf(csv_in[i].iata_code) : i \in 1..Len(csv_in)}
        \cup {CodeOf(dat_in[i][5]) : i \in {j \in 1..Len(dat_in) : Len(dat_in[j]) >= 5}}
        \cup {LGP}
        \cup DOMAIN idx

C9_SourcePrecedence ==
    ipc = "done" =>
        /\ \A c \in CodesGiven :
               IF ValidCsv(c) # {}
               THEN c \in DOMAIN idx /\ idx[c] = CsvRecord(csv_in[Last(ValidCsv(c))])
               ELSE IF ValidDat(c) # {}
               THEN c \in DOMAIN idx /\ idx[c] = DatRecord(dat_in[First(ValidDat(c))])
               ELSE IF c = LGP
               THEN c \in DOMAIN idx
               ELSE c \notin DOMAIN idx
        /\ (ValidCsv(LGP) = {} /\ ValidDat(LGP) = {}) =>
               idx[LGP] = [lat |-> 131575, lon |-> 1237350,
                           name |-> LegazpiAirport, iso_country |-> <<"P","H">>]

C9_Witness ==
    /\ ipc = "done"
    /\ ValidCsv(MNL) # {}
    /\ ValidDat(MNL) # {}
    /\ idx[MNL].iso_country = <<"P","H">>
    /\ ValidCsv(LGP) = {}
    /\ ValidDat(LGP) # {}
    /\ idx[LGP].lat = 9

(***************************************************************************)
(* C10: when the text, trimmed and uppercased, is three letters, the       *)
(* extractor returns them, alias applied; when it is three letters, any    *)
(* whitespace and a parenthesized three-letter code, the extractor returns *)
(* the parenthesized code, alias applied.  "MNL (MNL)" gives MNL and       *)
(* "LHR (CDG)" gives CDG.                                                  *)
(***************************************************************************)
Letters(s, from, to) ==
    /\ 1 <= from /\ to <= Len(s)
    /\ \A i \in from..to : s[i] \in AZ

C10_StrictShape ==
    code # Pending =>
        LET u == Upper(Strip(raw))
            n == Len(u)
        IN  /\ (n = 3 /\ Letters(u, 1, 3)) => code = IATA_ALIASES(u)
            /\ ( /\ n >= 8
                 /\ Letters(u, 1, 3)
                 /\ \A i \in 4..(n - 5) : u[i] \in Whitespace
                 /\ u[n - 4] = "(" /\ Letters(u, n - 3, n - 1) /\ u[n] = ")" )
                   => code = IATA_ALIASES(SubSeq(u, n - 3, n - 1))
            /\ raw = MNL \o <<" ">> \o <<"(","M","N","L",")">> => code = MNL
            /\ raw = LHR \o <<" ">> \o <<"(","C","D","G",")">> => code = CDG

C10_Witness ==
    /\ raw = LHR \o <<" ">> \o <<"(","C","D","G",")">>
    /\ code = CDG

(***************************************************************************)
(* C11: when the text, trimmed and uppercased, has not the strict shape    *)
(* (three letters, or three letters, whitespace and a parenthesized        *)
(* three-letter code), the extractor returns the last parenthesized        *)
(* three-letter code of the text, alias applied, and no match when the     *)
(* text holds no parenthesized three-letter code.  The empty text,         *)
(* "Berlin Hbf" and "..., YUC., Mexico" give no match.  Every call         *)
(* returns: the result is no match or three letters.                       *)
(***************************************************************************)
HasStrictShape(u) ==
    LET n == Len(u)
    IN  \/ n = 3 /\ Letters(u, 1, 3)
        \/ /\ n >= 8
           /\ Letters(u, 1, 3)
           /\ \A i \in 4..(n - 5) : u[i] \in Whitespace
           /\ u[n - 4] = "(" /\ Letters(u, n - 3, n - 1) /\ u[n] = ")"

\* The positions where a parenthesized three-letter code opens.
ParenAt(u) ==
    {i \in 1..Len(u) :
        /\ i + 4 <= Len(u)
        /\ u[i] = "(" /\ Letters(u, i + 1, i + 3) /\ u[i + 4] = ")"}

Rewritten(c) ==
    IF c \in {TXL, SXF} THEN BER ELSE IF c = NYC THEN JFK ELSE c

C11_Fallback ==
    code # Pending =>
        LET u == Upper(Strip(raw))
        IN  /\ code = None \/ (Len(code) = 3 /\ Letters(code, 1, 3))
            /\ raw \in {None, BerlinHbf, YucMexico} => code = None
            /\ ~HasStrictShape(u) =>
                   IF ParenAt(u) = {} THEN code = None
                   ELSE code = Rewritten(SubSeq(u, Last(ParenAt(u)) + 1,
                                                Last(ParenAt(u)) + 3))

C11_Witness ==
    /\ raw = <<"H","b","f">> \o <<"(","s","x","f",")">> \o <<"(","M","N","L",")">>
    /\ code = MNL

(***************************************************************************)
(* C12: the extractor never returns TXL, SXF or NYC.  A text that is three *)
(* letters in any letter case gives those letters in capitals, except that *)
(* TXL and SXF give BER and NYC gives JFK; the same holds of the           *)
(* parenthesized code the strict shape ends with and of the last           *)
(* parenthesized code of any other text.                                   *)
(***************************************************************************)
C12_AliasEverywhere ==
    code # Pending =>
        LET u == Upper(Strip(raw))
            n == Len(u)
        IN  /\ code \notin {TXL, SXF, NYC}
            /\ (n = 3 /\ Letters(u, 1, 3)) =>
                   /\ u \in {TXL, SXF} => code = BER
                   /\ u = NYC => code = JFK
                   /\ u \notin {TXL, SXF, NYC} => code = u
            /\ ParenAt(u) # {} =>
                   LET c == SubSeq(u, Last(ParenAt(u)) + 1, Last(ParenAt(u)) + 3)
                   IN  /\ c \in {TXL, SXF} => code = BER
                       /\ c = NYC => code = JFK

C12_Witness ==
    /\ raw = <<"a","t"," ","(","N","y","c",")","!">>
    /\ code = JFK

(***************************************************************************)
(* C13: when main has grouped the summaries, every EventSummary is a       *)
(* member of exactly one TripGroup, and that group bears its trip group    *)
(* key; no two groups bear the same key; the members of a group are the    *)
(* summaries with its key, each once.  The start of a group is the         *)
(* earliest start its members have (absent when none has one), its end     *)
(* the latest end, its year the smallest year, in whatever order the       *)
(* members were produced.                                                   *)
(***************************************************************************)
MembersOf(g) == {g.events[m] : m \in 1..Len(g.events)}

WithKey(gk) ==
    {event_summaries[i] : i \in {j \in 1..Len(event_summaries) :
                                      event_summaries[j].tripGroupKey = gk}}

C13_GroupAggregation ==
    pc = "done" =>
        /\ \A i \in 1..Len(event_summaries) :
               /\ Cardinality({k \in 1..Len(trip_groups) :
                                  event_summaries[i] \in MembersOf(trip_groups[k])}) = 1
               /\ \A k \in 1..Len(trip_groups) :
                      event_summaries[i] \in MembersOf(trip_groups[k])
                          => trip_groups[k].tripGroupKey = event_summaries[i].tripGroupKey
        /\ \A k, l \in 1..Len(trip_groups) :
               trip_groups[k].tripGroupKey = trip_groups[l].tripGroupKey => k = l
        /\ \A k \in 1..Len(trip_groups) :
               LET g == trip_groups[k]
                   own == WithKey(g.tripGroupKey)
                   starts == {e.start : e \in {x \in own : x.start.some}}
                   ends == {e.end : e \in {x \in own : x.end.some}}
                   years == {e.year : e \in {x \in own : x.year # 0}}
               IN  /\ MembersOf(g) = own
                   /\ Len(g.events) = Cardinality(own)
                   /\ IF starts = {} THEN ~g.start.some
                      ELSE g.start \in starts /\ \A x \in starts : g.start.t <= x.t
                   /\ IF ends = {} THEN ~g.end.some
                      ELSE g.end \in ends /\ \A x \in ends : x.t <= g.end.t
                   /\ IF years = {} THEN g.year = 0
                      ELSE g.year \in years /\ \A y \in years : g.year <= y

C13_Witness ==
    /\ pc = "done"
    /\ Len(event_summaries) = 2
    /\ Len(trip_groups) = 1
    /\ event_summaries[1].start.some /\ event_summaries[2].start.some
    /\ event_summaries[2].start.t < event_summaries[1].start.t
    /\ event_summaries[2].year < event_summaries[1].year
    /\ trip_groups[1].start = event_summaries[2].start
    /\ trip_groups[1].year = event_summaries[2].year

(***************************************************************************)
(* C14: when main has grouped the summaries, of any two adjacent events of *)
(* a TripGroup the earlier one has no start or a start not later than the  *)
(* other's, and of any two adjacent TripGroups the earlier one has no      *)
(* start or a start not later than the other's.                            *)
(***************************************************************************)
Ascending(xs) ==
    \A m \in 1..(Len(xs) - 1) :
        \/ ~xs[m].start.some
        \/ xs[m + 1].start.some /\ xs[m].start.t <= xs[m + 1].start.t

C14_Ordered ==
    pc = "done" =>
        /\ Ascending(trip_groups)
        /\ \A k \in 1..Len(trip_groups) : Ascending(trip_groups[k].events)

C14_Witness ==
    /\ pc = "done"
    /\ Len(event_summaries) = 2
    /\ Len(trip_groups) = 1
    /\ trip_groups[1].events = <<event_summaries[2], event_summaries[1]>>
    /\ ~event_summaries[2].start.some
    /\ event_summaries[1].start.some

(***************************************************************************)
(* C15: the run does not depend on the order in which the file system      *)
(* yields the documents.  Every step of the resolver is a function of the  *)
(* state and of the document, event or segment it reads; the order of the  *)
(* listing is the one thing the inputs do not fix.  Whatever that order,   *)
(* the i-th document read is the directory's i-th name in ascending order, *)
(* and the Segments and the EventSummaries stand in the ascending order of *)
(* the documents they come from.                                           *)
(***************************************************************************)
InDocumentOrder(xs) ==
    \A i, j \in 1..Len(xs) : i < j => NameRank(xs[i].ev[1]) <= NameRank(xs[j].ev[1])

C15_ListingOrderIrrelevant ==
    /\ \A i \in 1..Len(docs_seen) : docs_seen[i].stem = <<StemNames[i]>>
    /\ InDocumentOrder(segments)
    /\ InDocumentOrder(event_summaries)

C15_Witness ==
    /\ pc = "done"
    /\ listing[1] # <<StemNames[1]>>
    /\ Len(event_summaries) = 2
    /\ event_summaries[1].ev[1] # event_summaries[2].ev[1]
    /\ segments # <<>>

(***************************************************************************)
(* C16: when collect_segments has returned, the coordinates of an endpoint *)
(* of a Segment are the latitude and longitude of its address when both    *)
(* are there and numeric, whatever the raw address text says; otherwise    *)
(* they are those of the index record of the code extracted from the raw   *)
(* address text.  An endpoint with neither is unresolved: no Segment has   *)
(* one, and a segment read with one yields no Segment.                     *)
(***************************************************************************)
NoCoordinates == [lat |-> NoNum, lon |-> NoNum]

\* The code the extractor gives for the raw text of each address given.
ExtractedCode ==
    [addr \in {Direct, ByCode, LatOnly, BadLat, FreeText, UnknownCode, NoAddress}
        |-> iata_from_raw(addr.rawAddress)]

EndpointCoordinates(addr) ==
    IF addr.latitude.kind = "num" /\ addr.longitude.kind = "num"
    THEN [lat |-> addr.latitude, lon |-> addr.longitude]
    ELSE LET c == ExtractedCode[addr]
         IN  IF c # None /\ c \in DOMAIN airport_index
             THEN [lat |-> Num(airport_index[c].lat), lon |-> Num(airport_index[c].lon)]
             ELSE NoCoordinates

C16_ResolutionOrder ==
    pc = "done" =>
        /\ \A i \in 1..Len(segments) :
               LET from == EndpointCoordinates(segments[i].input.departureAddress)
                   to == EndpointCoordinates(segments[i].input.arrivalAddress)
               IN  /\ from # NoCoordinates /\ to # NoCoordinates
                   /\ segments[i].from_lat = from.lat /\ segments[i].from_lon = from.lon
                   /\ segments[i].to_lat = to.lat /\ segments[i].to_lon = to.lon
        /\ \A k \in 1..Len(events_seen) :
               Len(SeenSegsOf(events_seen[k].ev)) - Len(SegsOf(events_seen[k].ev))
                   = Len(SelectSeq(segs_seen,
                                   LAMBDA x : x.ev = events_seen[k].ev /\ ~x.resolvable))

C16_Witness ==
    \E i, j \in 1..Len(segments) :
        /\ pc = "done"
        /\ segments[i].input.departureAddress = Direct
        /\ iata_from_raw(Direct.rawAddress) \in DOMAIN airport_index
        /\ segments[i].from_lat = Num(10)
        /\ segments[j].input.departureAddress = BadLat
        /\ segments[j].from_lat = Num(523667) /\ segments[j].from_lon = Num(135033)
        /\ segments[j].input.arrivalAddress = LatOnly
        /\ segments[j].to_lat = Num(131575) /\ segments[j].to_lon = Num(1237350)

(***************************************************************************)
(* Timestamps of a collection of segments: the earliest departure and the  *)
(* latest arrival, as instants (the reading less the UTC offset); NoDt     *)
(* when no segment has one.                                                *)
(***************************************************************************)
Instant(d) == d.t - d.off

Departures(xs) == {xs[i].departure : i \in {j \in 1..Len(xs) : xs[j].departure.some}}

Arrivals(xs) == {xs[i].arrival : i \in {j \in 1..Len(xs) : xs[j].arrival.some}}

Earliest(D) ==
    IF D = {} THEN NoDt ELSE CHOOSE d \in D : \A x \in D : Instant(d) <= Instant(x)

Latest(D) ==
    IF D = {} THEN NoDt ELSE CHOOSE d \in D : \A x \in D : Instant(x) <= Instant(d)

\* What an ISO text says of a datetime: its reading, in UTC when it is aware.
IsoOf(d) ==
    IF ~d.some THEN NoIso ELSE [some |-> TRUE, t |-> Instant(d), utc |-> d.aware]

(***************************************************************************)
(* C17 as stated: the start of the EventSummary of a completed event that  *)
(* is not of the Hotel category is the earliest departure, and its end the *)
(* latest arrival, of the Segments emitted for the event.                  *)
(***************************************************************************)
C17_RangeOverEmitted ==
    \A k \in Completed :
        ~HotelCategory(events_seen[k].input) =>
            \A i \in 1..Len(SummariesOf(events_seen[k].ev)) :
                LET own == SummariesOf(events_seen[k].ev)[i]
                    emitted == SegsOf(events_seen[k].ev)
                IN  /\ own.start = IsoOf(Earliest(Departures(emitted)))
                    /\ own.end = IsoOf(Latest(Arrivals(emitted)))

(***************************************************************************)
(* C17 amended: when collect_segments has returned, the start of the       *)
(* EventSummary of an event that is not of the Hotel category is the       *)
(* earliest departure, and its end the latest arrival, of all the segments *)
(* read in the legs of the event, the ones discarded for unresolved        *)
(* coordinates like the ones emitted.                                      *)
(***************************************************************************)
C17_RangeOverAllSegments ==
    pc = "done" =>
        \A k \in 1..Len(events_seen) :
            ~HotelCategory(events_seen[k].input) =>
                \A i \in 1..Len(SummariesOf(events_seen[k].ev)) :
                    LET own == SummariesOf(events_seen[k].ev)[i]
                        read == SeenSegsOf(events_seen[k].ev)
                    IN  /\ own.start = IsoOf(Earliest(Departures(read)))
                        /\ own.end = IsoOf(Latest(Arrivals(read)))

C17_Witness ==
    \E k \in 1..Len(events_seen) :
        LET e == events_seen[k].ev
        IN  /\ pc = "done"
            /\ ~HotelCategory(events_seen[k].input)
            /\ Len(SeenSegsOf(e)) = 2 /\ Len(SegsOf(e)) = 1
            /\ SeenSegsOf(e)[1].resolvable
            /\ SummariesOf(e) # <<>>
            /\ SummariesOf(e)[1].start = IsoOf(SeenSegsOf(e)[2].departure)
            /\ SummariesOf(e)[1].start # IsoOf(SegsOf(e)[1].departure)

(***************************************************************************)
(* C18 as stated: the year of every EventSummary that has a start is the   *)
(* calendar year of that start as emitted, and an EventSummary without a   *)
(* start has no year.                                                      *)
(***************************************************************************)
C18_YearOfEmittedStart ==
    \A i \in 1..Len(event_summaries) :
        IF event_summaries[i].start.some
        THEN event_summaries[i].year = 2024 + (event_summaries[i].start.t \div 2)
        ELSE event_summaries[i].year = 0

(***************************************************************************)
(* C18 amended: when collect_segments has returned, the year of every      *)
(* EventSummary that has a start is the calendar year of the timestamp the *)
(* start was taken from (the earliest departure read for the event, or the *)
(* venue start) as the timestamp reads in its own time zone, before the    *)
(* start is normalized to UTC; an EventSummary without a start has no      *)
(* year.                                                                   *)
(***************************************************************************)
StartSource(k) ==
    IF IsLodging(events_seen[k].input)
    THEN parse_dt(events_seen[k].input.venueStartDate, "")
    ELSE Earliest(Departures(SeenSegsOf(events_seen[k].ev)))

C18_YearOfLocalStart ==
    pc = "done" =>
        \A k \in 1..Len(events_seen) :
            \A i \in 1..Len(SummariesOf(events_seen[k].ev)) :
                LET own == SummariesOf(events_seen[k].ev)[i]
                    src == StartSource(k)
                IN  /\ own.start = IsoOf(src)
                    /\ IF own.start.some THEN own.year = 2024 + (src.t \div 2)
                       ELSE own.year = 0

C18_Witness ==
    \E i \in 1..Len(event_summaries) :
        /\ pc = "done"
        /\ event_summaries[i].start.some
        /\ event_summaries[i].start.utc
        /\ event_summaries[i].year = 2025
        /\ 2024 + (event_summaries[i].start.t \div 2) = 2024

(***************************************************************************)
(* Rows of the datasets as the properties see them.  A row is invalid when *)
(* its code, trimmed, is empty or not of three characters, or its latitude *)
(* or longitude is no number; a secondary line also when it has fewer than *)
(* 8 fields or its code is the marker \N.                                  *)
(***************************************************************************)
InvalidCsvRow(row) ==
    \/ CodeOf(row.iata_code) = <<>>
    \/ Len(CodeOf(row.iata_code)) # 3
    \/ row.latitude_deg.kind # "num"
    \/ row.longitude_deg.kind # "num"

InvalidDatLine(line) ==
    \/ Len(line) < 8
    \/ CodeOf(line[5]) = <<>>
    \/ CodeOf(line[5]) = <<"\\","N">>
    \/ Len(CodeOf(line[5])) # 3
    \/ line[7].kind # "num"
    \/ line[8].kind # "num"

ReadsCsvRow == ipc = "csv" /\ airports_csv # <<>> /\ airports_csv' = Tail(airports_csv)

ReadsDatLine ==
    ipc = "dat" /\ openflights_dat # <<>> /\ openflights_dat' = Tail(openflights_dat)

Recorded(index, c, rec) ==
    /\ DOMAIN index = DOMAIN idx \cup {c}
    /\ index[c] = rec
    /\ \A o \in DOMAIN idx \ {c} : index[o] = idx[o]

(***************************************************************************)
(* C19 as stated: load_iata_index skips the invalid rows and no other: the *)
(* step that reads an invalid row leaves the index as it is, the step that *)
(* reads any other row of either dataset records it under its code; every  *)
(* key of the index has three characters.                                  *)
(***************************************************************************)
C19_SkipsExactlyInvalid ==
    [][ /\ ReadsCsvRow =>
            IF InvalidCsvRow(Head(airports_csv)) THEN idx' = idx
            ELSE Recorded(idx', CodeOf(Head(airports_csv).iata_code),
                          CsvRecord(Head(airports_csv)))
        /\ ReadsDatLine =>
            IF InvalidDatLine(Head(openflights_dat)) THEN idx' = idx
            ELSE Recorded(idx', CodeOf(Head(openflights_dat)[5]),
                          DatRecord(Head(openflights_dat)))
        /\ \A c \in DOMAIN idx' : Len(c) = 3
      ]_vars

(***************************************************************************)
(* C19 amended: load_iata_index skips the invalid rows and, besides them,  *)
(* only the secondary lines whose code the index already holds: the step   *)
(* that reads an invalid row, or a secondary line with a code already in   *)
(* the index, leaves the index as it is; the step that reads any other row *)
(* records it under its code and changes no other entry; every key of the  *)
(* index has three characters.                                             *)
(***************************************************************************)
C19_SkipsInvalidOrTaken ==
    [][ /\ ReadsCsvRow =>
            IF InvalidCsvRow(Head(airports_csv)) THEN idx' = idx
            ELSE Recorded(idx', CodeOf(Head(airports_csv).iata_code),
                          CsvRecord(Head(airports_csv)))
        /\ ReadsDatLine =>
            IF InvalidDatLine(Head(openflights_dat))
                  \/ CodeOf(Head(openflights_dat)[5]) \in DOMAIN idx
            THEN idx' = idx
            ELSE Recorded(idx', CodeOf(Head(openflights_dat)[5]),
                          DatRecord(Head(openflights_dat)))
        /\ \A c \in DOMAIN idx' : Len(c) = 3
      ]_vars

C19_Witness ==
    /\ ipc = "done"
    /\ Len(csv_in) = 2 /\ Len(dat_in) = 2
    /\ CodeOf(csv_in[1].iata_code) = MNL /\ InvalidCsvRow(csv_in[1])
    /\ CodeOf(csv_in[2].iata_code) = LGP /\ ~InvalidCsvRow(csv_in[2])
    /\ CodeOf(dat_in[1][5]) = MNL /\ ~InvalidDatLine(dat_in[1])
    /\ CodeOf(dat_in[2][5]) = LGP /\ ~InvalidDatLine(dat_in[2])
    /\ idx[MNL] = DatRecord(dat_in[1])
    /\ idx[LGP] = CsvRecord(csv_in[2])
    /\ DatRecord(dat_in[2]).lat # idx[LGP].lat

====
